---- MODULE Spec2Model ----
(***************************************************************************)
(* sra.py: search NCBI's Sequence Read Archive, fetch each package's       *)
(* record (through the .cache/<id> record cache), extract its fields with  *)
(* regular expressions and resolve its lineage (through .cache/taxa.csv).  *)
(*                                                                         *)
(* Python values are tagged records: PInt(n), PStr(s) and None.  Text is a *)
(* sequence of one-character strings, so that int() and float() are        *)
(* computed on it and can fail, and so that strings can be concatenated.   *)
(* re.search(regex, record) is represented by its outcome:                 *)
(* a record body says, for each of the eleven regexes of extract, whether  *)
(* it matches and what its named groups capture.                           *)
(***************************************************************************)
EXTENDS Integers, Sequences, FiniteSets, TLC

VARIABLES
    pc,          \* position of the run (main / SRAPackage.__init__ / efetch / get_lineage)
    err,         \* the uncaught exception that ended the run, NoErr when none
    runs,        \* number of runs started so far (the caches persist across runs)
    retmaxArg,   \* retmax as given to SRASearch.__init__
    retmax,      \* SRASearch.retmax
    sent,        \* the retmax argument of Entrez.esearch
    idlist,      \* SRASearch.idlist
    i,           \* index in idlist of the package under construction
    cacheDir,    \* whether the folder .cache exists
    files,       \* .cache/<id>: the stored body, or NoFile
    cached_file, \* efetch's local cached_file: TRUE for an open file, FALSE for None
    record,      \* SRAPackage.record
    pkg,         \* the attributes of the SRAPackage under construction
    taxa,        \* .cache/taxa.csv: the lines of the table, or NoFile
    cached_taxa, \* get_lineage's local data frame
    packages,    \* metadata tuples of the packages constructed in this run
    log,         \* steps taken by the package under construction
    lookups,     \* taxonomy lookups issued in this run, per taxon id
    firstRes     \* per taxon id, the pair returned by its first resolution in this run

vars == <<pc, err, runs, retmaxArg, retmax, sent, idlist, i, cacheDir, files,
          cached_file, record, pkg, taxa, cached_taxa, packages, log, lookups,
          firstRes>>

(***************************************************************************)
(* Bounds of the model.                                                    *)
(***************************************************************************)
MaxRuns == 2
MaxIds == 2

(***************************************************************************)
(* Python values.                                                          *)
(***************************************************************************)
None == [t |-> "None"]
PInt(n) == [t |-> "int", n |-> n]
PStr(s) == [t |-> "str", s |-> s]
NoFile == [t |-> "NoFile"]

Raise(e) == [ok |-> FALSE, exc |-> e]
Return(v) == [ok |-> TRUE, v |-> v]

DigitChars == <<"0", "1", "2", "3", "4", "5", "6", "7", "8", "9">>
IsDigit(c) == \E d \in 1..10 : DigitChars[d] = c
DigitVal(c) == (CHOOSE d \in 1..10 : DigitChars[d] = c) - 1

RECURSIVE LStrip(_)
LStrip(s) == IF s # <<>> /\ Head(s) = " " THEN LStrip(Tail(s)) ELSE s

RECURSIVE RStrip(_)
RStrip(s) ==
    IF s # <<>> /\ s[Len(s)] = " " THEN RStrip(SubSeq(s, 1, Len(s) - 1)) ELSE s

Strip(s) == RStrip(LStrip(s))

IsDigits(s) == s # <<>> /\ \A k \in 1..Len(s) : IsDigit(s[k])

RECURSIVE DigitsVal(_)
DigitsVal(s) ==
    IF s = <<>> THEN 0
    ELSE 10 * DigitsVal(SubSeq(s, 1, Len(s) - 1)) + DigitVal(s[Len(s)])

Signed(s) == s # <<>> /\ Head(s) \in {"-", "+"}
Unsigned(s) == IF Signed(s) THEN Tail(s) ELSE s
SignOf(s) == IF s # <<>> /\ Head(s) = "-" THEN -1 ELSE 1

\* int(x): an int is returned as it is; a string is stripped and must be an
\* optional sign followed by decimal digits, or ValueError is raised.
PyInt(x) ==
    IF x.t = "int" THEN Return(x.n)
    ELSE LET s == Strip(x.s) IN
         IF IsDigits(Unsigned(s))
         THEN Return(SignOf(s) * DigitsVal(Unsigned(s)))
         ELSE Raise("ValueError")

\* Position of the first "." of s, 0 when there is none.
DotPos(s) ==
    IF \E k \in 1..Len(s) : s[k] = "."
    THEN CHOOSE k \in 1..Len(s) : s[k] = "." /\ \A j \in 1..(k - 1) : s[j] # "."
    ELSE 0

AllDigits(s) == \A k \in 1..Len(s) : IsDigit(s[k])

\* float(x): the value as [neg, whole, frac] (frac the digits after the
\* point); a string must be [sign] digits [. digits] or [sign] . digits.
PyFloat(x) ==
    IF x.t = "int"
    THEN Return([neg |-> x.n < 0, whole |-> IF x.n < 0 THEN -x.n ELSE x.n, frac |-> <<>>])
    ELSE LET s == Strip(x.s)
             u == Unsigned(s)
             d == DotPos(u)
             w == IF d = 0 THEN u ELSE SubSeq(u, 1, d - 1)
             f == IF d = 0 THEN <<>> ELSE SubSeq(u, d + 1, Len(u))
         IN IF AllDigits(w) /\ AllDigits(f) /\ Len(w) + Len(f) > 0
            THEN Return([neg |-> SignOf(s) = -1, whole |-> DigitsVal(w), frac |-> f])
            ELSE Raise("ValueError")

\* int(f) of a float: truncation toward zero.
PyTrunc(f) == IF f.neg THEN -f.whole ELSE f.whole

\* bool(x) of a string or of None, as in "if not self.title".
Truthy(x) == x.t = "str" /\ x.s # <<>>

(***************************************************************************)
(* SRAPackage.extract.                                                     *)
(***************************************************************************)
NoMatch == [t |-> "NoMatch"]

\* The keys of the regexes dictionary.
RegexKeys ==
    <<"accession", "title", "study_title", "library_strategy", "library_layout",
      "instrument_model", "taxon_id", "scientific_name", "run_accession",
      "nreads", "read_average">>

NumericFields ==
    {"taxon_id", "nreads", "read_average", "total_spots", "total_bases", "size"}

\* The value a field takes when its regex does not match.
DefaultOf(field) == IF field \in NumericFields THEN PInt(0) ELSE PStr(<<>>)

\* re.search(regexes[field], record): NoMatch, or the match's groupdict().
ReSearch(field, rec) == rec[field]

\* One iteration of the loop over the regexes: the entries it puts in fields.
Bind(field, rec) ==
    LET re_search == ReSearch(field, rec) IN
    IF re_search # NoMatch
    THEN IF DOMAIN re_search # {}
         THEN re_search
         ELSE [k \in {field} |-> DefaultOf(field)]
    ELSE [k \in {field} |-> DefaultOf(field)]

\* The fields dictionary after the first n regexes; an assignment
\* fields[k] = v replaces an earlier one.
RECURSIVE FieldsUpTo(_, _)
FieldsUpTo(n, rec) ==
    IF n = 0 THEN << >>
    ELSE Bind(RegexKeys[n], rec) @@ FieldsUpTo(n - 1, rec)

Fields(rec) == FieldsUpTo(Len(RegexKeys), rec)

\* self.title: the study title stands in for a title that is missing or empty.
TitleNoFallback(f) == f["title"]
TitleOf(f) == IF ~Truthy(f["title"]) THEN f["study_title"] ELSE f["title"]

\* The attributes no SRAPackage method has assigned yet.
NewPackage ==
    [accession |-> None, title |-> None, library_strategy |-> None,
     library_layout |-> None, instrument_model |-> None, taxon_id |-> None,
     scientific_name |-> None, lineage |-> None, run_accession |-> None,
     nreads |-> None, read_average |-> None, total_spots |-> None,
     total_bases |-> None, size |-> None, published |-> None]

\* Whether the run-level attributes are read from the fields dictionary.
RunGuardOnMatch(p, f) == "total_spots" \in DOMAIN f
RunGuard(p, f) == Truthy(p.run_accession)

\* The assignments to the run-level attributes, after self.run_accession.
RunLevel(p, f) ==
    IF RunGuard(p, f)
    THEN LET ts == PyInt(f["total_spots"])
             tb == PyInt(f["total_bases"])
             sz == PyInt(f["size"])
         IN IF ~ts.ok THEN [ok |-> FALSE, exc |-> ts.exc, pkg |-> p]
            ELSE IF ~tb.ok
            THEN [ok |-> FALSE, exc |-> tb.exc,
                  pkg |-> [p EXCEPT !.total_spots = PInt(ts.v)]]
            ELSE IF ~sz.ok
            THEN [ok |-> FALSE, exc |-> sz.exc,
                  pkg |-> [p EXCEPT !.total_spots = PInt(ts.v),
                                    !.total_bases = PInt(tb.v)]]
            ELSE [ok |-> TRUE, exc |-> "",
                  pkg |-> [p EXCEPT !.total_spots = PInt(ts.v),
                                    !.total_bases = PInt(tb.v),
                                    !.size = PInt(sz.v),
                                    !.published = f["published"]]]
    ELSE [ok |-> TRUE, exc |-> "",
          pkg |-> [p EXCEPT !.total_spots = PInt(0), !.total_bases = PInt(0),
                            !.size = PInt(0), !.published = PStr(<<>>)]]

\* extract, from the package p and its record rec: whether it returns, the
\* exception it raises, and the package's attributes when it stops.
ExtractOf(p, rec) ==
    LET f == Fields(rec)
        a1 == [p EXCEPT !.accession = f["accession"],
                        !.title = TitleOf(f),
                        !.library_strategy = f["library_strategy"],
                        !.library_layout = f["library_layout"],
                        !.instrument_model = f["instrument_model"]]
        tx == PyInt(f["taxon_id"])
    IN IF ~tx.ok THEN [ok |-> FALSE, exc |-> tx.exc, pkg |-> a1]
       ELSE
    LET a2 == [a1 EXCEPT !.taxon_id = PInt(tx.v),
                         !.scientific_name = f["scientific_name"]]
        nr == PyInt(f["nreads"])
    IN IF ~nr.ok THEN [ok |-> FALSE, exc |-> nr.exc, pkg |-> a2]
       ELSE
    LET a3 == [a2 EXCEPT !.nreads = PInt(nr.v)]
        fl == PyFloat(f["read_average"])
    IN IF ~fl.ok THEN [ok |-> FALSE, exc |-> fl.exc, pkg |-> a3]
       ELSE
    LET a4 == [a3 EXCEPT !.read_average = PInt(PyTrunc(fl.v)),
                         !.run_accession = f["run_accession"]]
    IN RunLevel(a4, f)

(***************************************************************************)
(* The inputs: what the command line and the remote services may give.     *)
(***************************************************************************)
\* Limit defined by Entrez.
EntrezLimit == 100000

\* retmax: an int (fetch_sra.py) or the text of --maximum (main).
RetmaxInputs ==
    {PInt(20), PInt(100000), PInt(100001),
     PStr(<<"2", "0", "0", "0", "0", "0">>), PStr(<<"x">>)}

\* The package identifiers the search may return.
Ids == 1..MaxIds

RECURSIVE Distinct(_)
Distinct(s) ==
    s = <<>> \/ (Distinct(Tail(s)) /\ \A k \in 1..Len(Tail(s)) : Tail(s)[k] # Head(s))

IdLists ==
    {s \in UNION {[1..n -> Ids] : n \in 0..MaxIds} : Distinct(s)}

\* A groupdict with the single group k.
Group(k, v) == [x \in {k} |-> PStr(v)]

RunGroups(acc, spots, bases, size, pub) ==
    [run_accession |-> PStr(acc), total_spots |-> PStr(spots),
     total_bases |-> PStr(bases), size |-> PStr(size), published |-> PStr(pub)]

FullBody ==
    [accession |-> Group("accession", <<"E">>),
     title |-> Group("title", <<"T">>),
     study_title |-> Group("study_title", <<"S">>),
     library_strategy |-> Group("library_strategy", <<"W">>),
     library_layout |-> Group("library_layout", <<"P">>),
     instrument_model |-> Group("instrument_model", <<"I">>),
     taxon_id |-> Group("taxon_id", <<"9">>),
     scientific_name |-> Group("scientific_name", <<"G">>),
     run_accession |-> RunGroups(<<"R">>, <<"5">>, <<"6">>, <<"7">>, <<"D">>),
     nreads |-> Group("nreads", <<"2">>),
     read_average |-> Group("read_average", <<"7", "0", ".", "5">>)]

\* A body none of the regexes matches.
BareBody == [k \in {RegexKeys[n] : n \in 1..Len(RegexKeys)} |-> NoMatch]

\* <TAXON_ID></TAXON_ID>
EmptyTaxonBody == [FullBody EXCEPT !.taxon_id = Group("taxon_id", <<>>)]

\* What Entrez.efetch(db='sra') may return, for any id and at any time.
Bodies == {FullBody, BareBody, EmptyTaxonBody}

\* The taxon identifiers of the bodies, and 0 for a body without one.
TaxonIds == {0, 9}

\* What Entrez.efetch(db='taxonomy') may return for a taxon identifier.
Taxonomy(t) ==
    IF t = 9
    THEN {[ScientificName |-> <<"G">>, Lineage |-> <<"A">>],
          [ScientificName |-> <<"H">>, Lineage |-> <<"A">>]}
    ELSE {[ScientificName |-> <<"r">>, Lineage |-> <<>>]}

(***************************************************************************)
(* The lineage table: a data frame, and its CSV file .cache/taxa.csv.      *)
(***************************************************************************)
\* str(n) of an int n >= 0.
RECURSIVE IntText(_)
IntText(n) ==
    IF n < 10 THEN <<DigitChars[n + 1]>>
    ELSE IntText(n \div 10) \o <<DigitChars[(n % 10) + 1]>>

NaN == [t |-> "nan"]

\* pd.DataFrame(columns=['taxon_id', 'lineage', 'scientific_name'])
EmptyFrame == << >>

\* cached_taxa.append([{...}]): the new row keeps its own index label, 0.
FrameAppend(frame, taxon_id, lineage, scientific_name) ==
    Append(frame, [index |-> 0, taxon_id |-> taxon_id, lineage |-> lineage,
                   scientific_name |-> scientific_name])

\* DataFrame.to_csv: one line per row, the index label first, cells as text.
ToCsv(frame) ==
    [t |-> "csv",
     lines |-> [k \in 1..Len(frame) |->
                  [index |-> IntText(frame[k].index),
                   lineage |-> frame[k].lineage.s,
                   scientific_name |-> frame[k].scientific_name.s,
                   taxon_id |-> IntText(frame[k].taxon_id.n)]]]

\* A text cell read back: an empty cell is a missing value.
TextCell(c) == IF c = <<>> THEN NaN ELSE PStr(c)

\* DataFrame.from_csv: the first column is the index, numbers are parsed.
FromCsv(file) ==
    [k \in 1..Len(file.lines) |->
        [index |-> DigitsVal(file.lines[k].index),
         taxon_id |-> PInt(DigitsVal(file.lines[k].taxon_id)),
         lineage |-> TextCell(file.lines[k].lineage),
         scientific_name |-> TextCell(file.lines[k].scientific_name)]]

\* cached_taxa[cached_taxa.taxon_id == taxon_id]
TaxonRows(frame, taxon_id) ==
    SelectSeq(frame, LAMBDA r : r.taxon_id = taxon_id)

\* taxon[0]['Lineage'] + '; ' + self.scientific_name
LineageOf(taxon) == taxon.Lineage \o <<";", " ">> \o taxon.ScientificName

(***************************************************************************)
(* The run: main, SRASearch, SRAPackage.                                   *)
(***************************************************************************)
NoErr == [exc |-> "", at |-> ""]
Exc(e, where) == [exc |-> e, at |-> where]

\* The state a run starts in; the folder .cache and its files persist.
RunStart ==
    /\ pc = "start"
    /\ err = NoErr
    /\ retmaxArg = None
    /\ retmax = None
    /\ sent = None
    /\ idlist = <<>>
    /\ i = 0
    /\ cached_file = FALSE
    /\ record = None
    /\ pkg = NewPackage
    /\ cached_taxa = EmptyFrame
    /\ packages = <<>>
    /\ log = <<>>
    /\ lookups = [t \in TaxonIds |-> 0]
    /\ firstRes = [t \in TaxonIds |-> None]

Init ==
    /\ RunStart
    /\ runs = 1
    /\ cacheDir = FALSE
    /\ files = [id \in Ids |-> NoFile]
    /\ taxa = NoFile

\* An uncaught exception ends the run.
Abort(e, where) ==
    /\ pc' = "aborted"
    /\ err' = Exc(e, where)

\* self.retmax, from retmax and n = int(retmax).
RetmaxUnclamped(n, given) == given
RetmaxOf(n, given) == IF n > EntrezLimit THEN PInt(EntrezLimit) ELSE given

\* SRASearch.__init__: int(retmax) may raise, and so may the Entrez.einfo
\* request of SRADatabase().
SRASearchInit ==
    /\ pc = "start"
    /\ \E given \in RetmaxInputs :
          LET n == PyInt(given) IN
          /\ retmaxArg' = given
          /\ IF n.ok
             THEN /\ retmax' = RetmaxOf(n.v, given)
                  /\ \/ /\ pc' = "esearch"
                        /\ err' = err
                     \/ Abort("URLError", "einfo")
             ELSE /\ retmax' = retmax
                  /\ Abort(n.exc, "SRASearch")
    /\ UNCHANGED <<runs, sent, idlist, i, cacheDir, files, cached_file, record,
                   pkg, taxa, cached_taxa, packages, log, lookups, firstRes>>

\* SRASearch.esearch and parse_results: the search fails, or returns its ids.
Esearch ==
    /\ pc = "esearch"
    /\ sent' = retmax
    /\ \/ /\ Abort("SearchError", "esearch")
          /\ UNCHANGED <<idlist, i>>
       \/ /\ \E ids \in IdLists : idlist' = ids
          /\ i' = 1
          /\ pc' = "package"
          /\ err' = err
    /\ UNCHANGED <<runs, retmaxArg, retmax, cacheDir, files, cached_file, record,
                   pkg, taxa, cached_taxa, packages, log, lookups, firstRes>>

\* main's list comprehension reaches the next id: SRAPackage.__init__ up to
\* the call of efetch.
NextPackage ==
    /\ pc = "package"
    /\ i <= Len(idlist)
    /\ pkg' = NewPackage
    /\ record' = None
    /\ cached_file' = FALSE
    /\ cached_taxa' = EmptyFrame
    /\ log' = <<>>
    /\ pc' = "cache"
    /\ UNCHANGED <<err, runs, retmaxArg, retmax, sent, idlist, i, cacheDir, files,
                   taxa, packages, lookups, firstRes>>

\* Where efetch goes after self.cache() returned cached_file.
AlwaysFetch(cf) == "fetch"
AfterCache(cf) == IF cf THEN "read" ELSE "fetch"

\* SRAPackage.cache, called by efetch: the folder is made when missing, and
\* a cache file that cannot be opened is None.
CacheLookup ==
    /\ pc = "cache"
    /\ \/ /\ ~cacheDir
          /\ Abort("OSError", "mkdir")
          /\ UNCHANGED <<cacheDir, cached_file, log>>
       \/ /\ cacheDir' = TRUE
          /\ \E opened \in {TRUE, FALSE} :
                /\ opened => files[idlist[i]] # NoFile
                /\ cached_file' = opened
                /\ log' = Append(log, IF opened THEN "hit" ELSE "miss")
                /\ pc' = AfterCache(opened)
          /\ err' = err
    /\ UNCHANGED <<runs, retmaxArg, retmax, sent, idlist, i, files, record, pkg,
                   taxa, cached_taxa, packages, lookups, firstRes>>

\* efetch, cached_file.read(): the file's contents, or the error of the read.
CacheRead ==
    /\ pc = "read"
    /\ \/ /\ record' = files[idlist[i]]
          /\ pc' = "extract"
          /\ err' = err
       \/ /\ Abort("IOError", "read")
          /\ record' = record
    /\ UNCHANGED <<runs, retmaxArg, retmax, sent, idlist, i, cacheDir, files,
                   cached_file, pkg, taxa, cached_taxa, packages, log, lookups,
                   firstRes>>

\* efetch, Entrez.efetch(db='sra') and handle.read().
NetFetch ==
    /\ pc = "fetch"
    /\ log' = Append(log, "fetch")
    /\ \/ /\ \E body \in Bodies : record' = body
          /\ pc' = "write"
          /\ err' = err
       \/ /\ Abort("URLError", "efetch")
          /\ record' = record
    /\ UNCHANGED <<runs, retmaxArg, retmax, sent, idlist, i, cacheDir, files,
                   cached_file, pkg, taxa, cached_taxa, packages, lookups, firstRes>>

\* efetch, the cache file is opened for writing and the record written.
CacheWrite ==
    /\ pc = "write"
    /\ \/ /\ files' = [files EXCEPT ![idlist[i]] = record]
          /\ log' = Append(log, "write")
          /\ pc' = "extract"
          /\ err' = err
       \/ /\ Abort("IOError", "write")
          /\ UNCHANGED <<files, log>>
    /\ UNCHANGED <<runs, retmaxArg, retmax, sent, idlist, i, cacheDir,
                   cached_file, record, pkg, taxa, cached_taxa, packages, lookups,
                   firstRes>>

\* efetch's call of extract.
Extract ==
    /\ pc = "extract"
    /\ LET r == ExtractOf(pkg, record) IN
       /\ pkg' = r.pkg
       /\ IF r.ok
          THEN /\ pc' = "lineage"
               /\ err' = err
               /\ log' = Append(log, "extract")
          ELSE /\ Abort(r.exc, "extract")
               /\ log' = log
    /\ UNCHANGED <<runs, retmaxArg, retmax, sent, idlist, i, cacheDir, files,
                   cached_file, record, taxa, cached_taxa, packages, lookups,
                   firstRes>>

\* The pair get_lineage leaves in the package.
Resolved(p) == [scientific_name |-> p.scientific_name, lineage |-> p.lineage]

NoteResolved(p) ==
    firstRes' = IF firstRes[p.taxon_id.n] = None
                THEN [firstRes EXCEPT ![p.taxon_id.n] = Resolved(p)]
                ELSE firstRes

\* get_lineage up to the branch: the table is read (an unreadable or missing
\* table is an empty frame) and the row of the taxon id looked for.  On a
\* hit get_lineage returns, and its local frame is gone.
GetLineage ==
    /\ pc = "lineage"
    /\ log' = Append(log, "lineage")
    /\ \E readable \in {TRUE, FALSE} :
          /\ readable => taxa # NoFile
          /\ LET frame == IF readable THEN FromCsv(taxa) ELSE EmptyFrame
                 taxon_row == TaxonRows(frame, pkg.taxon_id)
             IN IF taxon_row # <<>>
                THEN /\ pkg' = [pkg EXCEPT
                                  !.scientific_name = taxon_row[1].scientific_name,
                                  !.lineage = taxon_row[1].lineage]
                     /\ NoteResolved(pkg')
                     /\ cached_taxa' = EmptyFrame
                     /\ pc' = "assemble"
                ELSE /\ pkg' = pkg
                     /\ firstRes' = firstRes
                     /\ cached_taxa' = frame
                     /\ pc' = "taxfetch"
    /\ UNCHANGED <<err, runs, retmaxArg, retmax, sent, idlist, i, cacheDir, files,
                   cached_file, record, taxa, packages, lookups>>

\* What a failed taxonomy lookup leaves: nothing catches the exception.
LookupFailureDefaulted(p) ==
    [pc |-> "taxstore", err |-> NoErr,
     pkg |-> [p EXCEPT !.scientific_name = PStr(<<>>), !.lineage = PStr(<<>>)]]
LookupFailure(p) ==
    [pc |-> "aborted", err |-> Exc("LineageResolutionError", "taxonomy"), pkg |-> p]

\* get_lineage, Entrez.efetch(db='taxonomy') and Entrez.read.
TaxonFetch ==
    /\ pc = "taxfetch"
    /\ lookups' = [lookups EXCEPT ![pkg.taxon_id.n] = @ + 1]
    /\ \/ /\ \E taxon \in Taxonomy(pkg.taxon_id.n) :
                pkg' = [pkg EXCEPT
                          !.scientific_name = PStr(taxon.ScientificName),
                          !.lineage = PStr(LineageOf(taxon))]
          /\ pc' = "taxstore"
          /\ err' = err
       \/ LET f == LookupFailure(pkg) IN
          /\ pc' = f.pc
          /\ err' = f.err
          /\ pkg' = f.pkg
    /\ UNCHANGED <<runs, retmaxArg, retmax, sent, idlist, i, cacheDir, files,
                   cached_file, record, taxa, cached_taxa, packages, log, firstRes>>

\* get_lineage, the row is appended to the frame read and the table written.
TaxaStore ==
    /\ pc = "taxstore"
    /\ \/ /\ taxa' = ToCsv(FrameAppend(cached_taxa, pkg.taxon_id, pkg.lineage,
                                       pkg.scientific_name))
          /\ NoteResolved(pkg)
          /\ cached_taxa' = EmptyFrame
          /\ pc' = "assemble"
          /\ err' = err
       \/ /\ Abort("IOError", "to_csv")
          /\ UNCHANGED <<taxa, firstRes, cached_taxa>>
    /\ UNCHANGED <<runs, retmaxArg, retmax, sent, idlist, i, cacheDir, files,
                   cached_file, record, pkg, packages, log, lookups>>

\* self.metadata
Metadata(id, p) ==
    <<id, p.accession, p.title, p.lineage, p.taxon_id, p.scientific_name,
      p.library_strategy, p.library_layout, p.instrument_model, p.run_accession,
      p.nreads, p.read_average, p.total_spots, p.total_bases, p.size, p.published>>

\* SRAPackage.__init__ after get_lineage: the metadata tuple is filled and
\* the package joins main's list.
Assemble ==
    /\ pc = "assemble"
    /\ packages' = Append(packages, Metadata(idlist[i], pkg))
    /\ log' = Append(log, "assemble")
    /\ i' = i + 1
    /\ pc' = "package"
    /\ UNCHANGED <<err, runs, retmaxArg, retmax, sent, idlist, cacheDir, files,
                   cached_file, record, pkg, taxa, cached_taxa, lookups, firstRes>>

\* main after the last package: the data frame is built from the metadata
\* tuples and written; the CSV output is not part of the state.
Finish ==
    /\ pc = "package"
    /\ i > Len(idlist)
    /\ pc' = "done"
    /\ UNCHANGED <<err, runs, retmaxArg, retmax, sent, idlist, i, cacheDir, files,
                   cached_file, record, pkg, taxa, cached_taxa, packages, log,
                   lookups, firstRes>>

\* The program is run again, over the caches the earlier runs left.
NewRun ==
    /\ pc \in {"done", "aborted"}
    /\ runs < MaxRuns
    /\ runs' = runs + 1
    /\ pc' = "start"
    /\ err' = NoErr
    /\ retmaxArg' = None
    /\ retmax' = None
    /\ sent' = None
    /\ idlist' = <<>>
    /\ i' = 0
    /\ cached_file' = FALSE
    /\ record' = None
    /\ pkg' = NewPackage
    /\ cached_taxa' = EmptyFrame
    /\ packages' = <<>>
    /\ log' = <<>>
    /\ lookups' = [t \in TaxonIds |-> 0]
    /\ firstRes' = [t \in TaxonIds |-> None]
    /\ UNCHANGED <<cacheDir, files, taxa>>

Next ==
    \/ SRASearchInit
    \/ Esearch
    \/ NextPackage
    \/ CacheLookup
    \/ CacheRead
    \/ NetFetch
    \/ CacheWrite
    \/ Extract
    \/ GetLineage
    \/ TaxonFetch
    \/ TaxaStore
    \/ Assemble
    \/ Finish
    \/ NewRun

Spec == Init /\ [][Next]_vars

(***************************************************************************)
(* extract alone, over a wider set of records: every combination of the    *)
(* captures below, the other regexes all matching or all failing.          *)
(***************************************************************************)
TitleCaptures == {NoMatch, Group("title", <<>>), Group("title", <<"T">>)}
StudyCaptures == {NoMatch, Group("study_title", <<>>), Group("study_title", <<"S">>)}
TaxonCaptures ==
    {NoMatch, Group("taxon_id", <<>>), Group("taxon_id", <<"9">>),
     Group("taxon_id", <<"x">>)}
NreadsCaptures ==
    {NoMatch, Group("nreads", <<"2">>), Group("nreads", <<"1", ".", "5">>)}
AverageCaptures ==
    {NoMatch, Group("read_average", <<>>),
     Group("read_average", <<"7", "0", ".", "5">>),
     Group("read_average", <<"-", "1", ".", "5">>)}
RunCaptures ==
    {NoMatch} \cup
    {RunGroups(acc, spots, <<"6">>, size, pub) :
        acc \in {<<>>, <<"R">>}, spots \in {<<>>, <<"5">>},
        size \in {<<"7">>, <<"x">>}, pub \in {<<>>, <<"D">>}}

ExtractInputs ==
    {[rest EXCEPT !.title = ti, !.study_title = st, !.taxon_id = tx,
                  !.nreads = nr, !.read_average = av, !.run_accession = ru] :
        rest \in {FullBody, BareBody}, ti \in TitleCaptures, st \in StudyCaptures,
        tx \in TaxonCaptures, nr \in NreadsCaptures, av \in AverageCaptures,
        ru \in RunCaptures}

\* efetch has read a cached record and is about to call extract.
InitExtract ==
    /\ pc = "extract"
    /\ err = NoErr
    /\ runs = 1
    /\ retmaxArg = PInt(20)
    /\ retmax = PInt(20)
    /\ sent = PInt(20)
    /\ idlist = <<1>>
    /\ i = 1
    /\ cacheDir = TRUE
    /\ record \in ExtractInputs
    /\ files = [id \in Ids |-> IF id = 1 THEN record ELSE NoFile]
    /\ cached_file = TRUE
    /\ pkg = NewPackage
    /\ taxa = NoFile
    /\ cached_taxa = EmptyFrame
    /\ packages = <<>>
    /\ log = <<"hit">>
    /\ lookups = [t \in TaxonIds |-> 0]
    /\ firstRes = [t \in TaxonIds |-> None]

NextExtract == Extract

SpecExtract == InitExtract /\ [][NextExtract]_vars

(***************************************************************************)
(* Properties.                                                             *)
(***************************************************************************)
IsPrefix(s, t) == Len(s) <= Len(t) /\ \A k \in 1..Len(s) : s[k] = t[k]
Min(a, b) == IF a < b THEN a ELSE b
CsvLines(file) ==
    IF file = NoFile THEN {} ELSE {file.lines[k] : k \in 1..Len(file.lines)}
CsvCount(file) == IF file = NoFile THEN 0 ELSE Len(file.lines)

\* C1: within a run the taxonomy lookup is issued at most once per taxon id,
\* and a resolution of a taxon id returns the pair its first resolution
\* returned.
C1_OneLookupPerTaxon ==
    /\ \A t \in TaxonIds : lookups[t] <= 1
    /\ pc = "assemble" => Resolved(pkg) = firstRes[pkg.taxon_id.n]

\* C2: once a record cache file is written, no step changes its contents.
C2_WriteOnce ==
    [][\A id \in Ids : files[id] # NoFile => files'[id] = files[id]]_vars

\* C3: extract never raises, and leaves every attribute it assigns defined.
C3_ExtractNeverFails ==
    /\ err.at # "extract"
    /\ pc = "lineage" =>
          \A a \in DOMAIN pkg \ {"lineage"} : pkg[a] # None

\* C4: no error of the cache folder's creation, of the cache file's opening
\* or of its reading ends the resolution.
C4_CacheErrorsAreMisses ==
    ~(pc = "aborted" /\ err.at \in {"mkdir", "read"})

\* C5: a step that changes the lineage table keeps every line it held and
\* adds exactly one.
C5_AppendOnly ==
    [][taxa' # taxa =>
          /\ CsvLines(taxa) \subseteq CsvLines(taxa')
          /\ CsvCount(taxa') = CsvCount(taxa) + 1]_vars

HitPath == <<"hit", "extract", "lineage", "assemble">>
MissPath == <<"miss", "fetch", "write", "extract", "lineage", "assemble">>

\* C6: the steps of a package's resolution are a prefix of: cache hit,
\* extraction, lineage, assembly; or of: cache miss, fetch, cache write,
\* extraction, lineage, assembly; the record written is the record fetched,
\* and lineage resolution works on an extracted taxon id.
C6_ResolutionOrder ==
    /\ IsPrefix(log, HitPath) \/ IsPrefix(log, MissPath)
    /\ (log # <<>> /\ log[Len(log)] = "write") => files[idlist[i]] = record
    /\ (\E k \in 1..Len(log) : log[k] = "lineage") => pkg.taxon_id.t = "int"
C6_MissPathTaken == pc = "package" /\ log = MissPath

RunCaptured(rec) ==
    rec.run_accession # NoMatch /\ rec.run_accession.run_accession.s # <<>>

\* C7: after extraction the four run-level attributes are the run regex's
\* captures when it captured a non-empty run accession, and otherwise all
\* four are the defaults 0, 0, 0 and the empty string.
C7_RunLevelGroup ==
    pc = "lineage" =>
       IF RunCaptured(record)
       THEN /\ pkg.total_spots = PInt(PyInt(record.run_accession.total_spots).v)
            /\ pkg.total_bases = PInt(PyInt(record.run_accession.total_bases).v)
            /\ pkg.size = PInt(PyInt(record.run_accession.size).v)
            /\ pkg.published = record.run_accession.published
       ELSE /\ pkg.total_spots = PInt(0)
            /\ pkg.total_bases = PInt(0)
            /\ pkg.size = PInt(0)
            /\ pkg.published = PStr(<<>>)
C7_EmptyAccessionDefaults ==
    /\ pc = "lineage"
    /\ record.run_accession # NoMatch
    /\ record.run_accession.run_accession.s = <<>>
    /\ record.run_accession.total_spots.s = <<"5">>
    /\ record.run_accession.published.s = <<"D">>
    /\ pkg.total_spots = PInt(0)
    /\ pkg.published = PStr(<<>>)

ExpectedTitle(rec) ==
    IF rec.title # NoMatch /\ rec.title.title.s # <<>>
    THEN rec.title.title
    ELSE IF rec.study_title # NoMatch
         THEN rec.study_title.study_title
         ELSE PStr(<<>>)

\* C8: the title is the title regex's capture when it matched a non-empty
\* value, and otherwise the study title's capture, the empty string when
\* that regex failed too.
C8_TitleFallback == pkg.title # None => pkg.title = ExpectedTitle(record)
C8_EmptyTitleFallsBack ==
    /\ record # None
    /\ record.title = Group("title", <<>>)
    /\ record.study_title = Group("study_title", <<"S">>)
    /\ pkg.title = PStr(<<"S">>)

\* C9: the bound sent to the search is min(retmax, 100000), and a retmax of
\* 100000 or less is sent as given.
C9_RetmaxClamp ==
    sent # None =>
       /\ PyInt(sent).v = Min(PyInt(retmaxArg).v, 100000)
       /\ PyInt(sent).v <= 100000
       /\ PyInt(retmaxArg).v <= 100000 => sent = retmaxArg
C9_Clamped ==
    /\ retmaxArg = PStr(<<"2", "0", "0", "0", "0", "0">>)
    /\ sent = PInt(100000)

LookedUp(p, t) ==
    \E taxon \in Taxonomy(t) :
       /\ p.scientific_name = PStr(taxon.ScientificName)
       /\ p.lineage = PStr(LineageOf(taxon))

\* C10: a taxonomy lookup either yields the looked-up name and lineage, or
\* ends the run: no metadata tuple, no lineage in the package, the lineage
\* table and the record cache as they were, the package's record in its
\* cache file.
C10_LookupFailureFatal ==
    [][pc = "taxfetch" =>
          \/ pc' = "taxstore" /\ LookedUp(pkg', pkg.taxon_id.n)
          \/ /\ pc' = "aborted"
             /\ err'.exc = "LineageResolutionError"
             /\ packages' = packages
             /\ Len(packages) = i - 1
             /\ pkg'.lineage = None
             /\ taxa' = taxa
             /\ files' = files
             /\ files[idlist[i]] = record]_vars
C10_DefaultTaxonLookupFailed ==
    /\ pc = "aborted"
    /\ err.exc = "LineageResolutionError"
    /\ pkg.taxon_id = PInt(0)
    /\ files[idlist[i]] = record
    /\ Len(packages) = i - 1

====
